---------------------------- MODULE Spec2Model ----------------------------
(***************************************************************************)
(* The transaction coordinator of atomix (coordinator/src/transaction.rs): *)
(* one Transaction object, its client operations get / put / del / abort / *)
(* commit, and the collaborators it calls (universe directory, assignment  *)
(* oracle, range client, epoch reader, transaction state store).           *)
(*                                                                         *)
(* Client operations are serialised (every method takes &mut self), so a   *)
(* client operation starts only when pc = "idle".  get, put and del, which *)
(* await one collaborator at a time, are one step each; record_abort and   *)
(* commit fan out parallel tasks and are stepped task by task.             *)
(***************************************************************************)
EXTENDS Integers, Sequences, FiniteSets, TLC

(* ------------------------------ bounds -------------------------------- *)

\* Client calls made on the transaction.
MaxOps == 4
\* Integer width of the model: u64/i64 are scaled down to this modulus.
WordModulus == 256

(* ----------------------------- constants ------------------------------ *)

\* common::constants (leader_sequence_number of a new ParticipantRange is 0).
UNSET_LEADER_SEQUENCE_NUMBER == 0
INVALID_LEADER_SEQUENCE_NUMBER == -1

Keyspaces == {"a", "b"}
Keys == {"k1", "k2"}
Vals == {"v1", "v2"}
\* Leader sequence numbers a range server may report.
LeaderSeqs == {INVALID_LEADER_SEQUENCE_NUMBER, UNSET_LEADER_SEQUENCE_NUMBER, 7, 9}
\* "no keyspace_info" in a GetKeyspaceInfo response.
NoKeyspace == 0
NoRange == <<0, 0>>
NoLease == <<0, 0>>
\* Epochs the epoch reader may return.
Epochs == {1, 2}
\* Epoch leases a prepare may return (lower, upper), both inclusive.
Leases == {<<1, 1>>}

\* `x as u64` and `x as i64` on the scaled width.
AsU64(x) == x % WordModulus
AsI64(u) == IF u >= WordModulus \div 2 THEN u - WordModulus ELSE u

(* ------------------------ collaborators (stubs) ----------------------- *)

\* What a GetKeyspaceInfo RPC may give back: a transport error, or the
\* directory's answer at that moment.  Keyspace "a" has id 1 and may be
\* dropped and recreated with id 2; keyspace "b" has id 3 or does not exist.
KeyspaceIds(n) == IF n = "a" THEN {1, 2} ELSE {3}
Lookups(n) ==
    {[err |-> TRUE, id |-> NoKeyspace]} \cup
    {[err |-> FALSE, id |-> i] : i \in KeyspaceIds(n) \cup {NoKeyspace}}

\* RangeAssignmentOracle::full_range_id_of_key: a fixed snapshot.  Keyspace 1
\* has one range per key, keyspace 2 one range for both keys, and keyspace 3
\* no range: none of its keys has an owner.
full_range_id_of_key(keyspace_id, key) ==
    IF keyspace_id = 3 THEN NoRange
    ELSE IF keyspace_id = 1 /\ key = "k2" THEN <<1, 2>>
    ELSE <<keyspace_id, 1>>

\* The value a range server holds for a key: k1 is missing everywhere.
StoredValue(range_id, key) == IF key = "k1" THEN <<"None">> ELSE <<"Some", "s0">>

(* ------------------------------- state -------------------------------- *)

VARIABLES
    state,               \* Transaction.state
    participant_ranges,  \* Transaction.participant_ranges
    resolved_keyspaces,  \* Transaction.resolved_keyspaces
    pc,                  \* where the operation in progress stands
    cur,                 \* the operation in progress (or the last one)
    ret,                 \* what the last operation returned ("pending" until it does)
    calls,               \* cur's calls to universe, oracle, epoch reader and store
    rpcs,                \* cur's range client RPCs, by range, as each range gets them
    opCount,             \* client calls made so far
    epoch,               \* commit()'s local `epoch`
    prepare_join_set,    \* commit()'s prepare tasks, by range
    commit_join_set,     \* commit()'s commit tasks, by range
    abort_join_set,      \* record_abort()'s abort tasks, by range
    store,               \* the transaction state store's record of this tx
    last_mutation,       \* history: the last successful put / del of each key
    commit_hist,         \* history: whether a commit() has failed, and the
                         \* try_commit calls made over the transaction's life
    life_events          \* history: which of "committed" (try_commit answered
                         \* Committed), "try_abort", "abort_rpc", "commit_rpc"
                         \* have happened over the transaction's life

vars == <<state, participant_ranges, resolved_keyspaces, pc, cur, ret, calls,
          rpcs, opCount, epoch, prepare_join_set, commit_join_set, abort_join_set,
          store, last_mutation, commit_hist, life_events>>

txVars == <<state, participant_ranges, resolved_keyspaces>>
taskVars == <<epoch, prepare_join_set, commit_join_set, abort_join_set>>
envVars == <<store>>
histVars == <<last_mutation>>
lifeVars == <<commit_hist, life_events>>
NoMutation == [ks \in Keyspaces, k \in Keys |-> <<"none">>]

EmptyMap == [x \in {} |-> x]
MapInsert(m, k, v) == [x \in (DOMAIN m) \cup {k} |-> IF x = k THEN v ELSE m[x]]
MapRemove(m, k) == [x \in (DOMAIN m) \ {k} |-> m[x]]

Call(kind, e) == [kind |-> kind, epoch |-> e]
Ranges == {full_range_id_of_key(id, k) : id \in 1..3, k \in Keys} \ {NoRange}
NoRpcs == [r \in Ranges |-> <<>>]
Rpc(range_id, kind, e) == [rpcs EXCEPT ![range_id] = Append(@, Call(kind, e))]

Ok == <<"Ok">>
Err(e) == <<"Err", e>>
Panic(msg) == <<"panic", msg>>
Pending == <<"pending">>

Init ==
    /\ state = "Running"
    /\ participant_ranges = EmptyMap
    /\ resolved_keyspaces = EmptyMap
    /\ pc = "idle"
    /\ cur = "none"
    /\ ret = <<"none">>
    /\ calls = <<>>
    /\ rpcs = NoRpcs
    /\ opCount = 0
    /\ epoch = 0
    /\ prepare_join_set = EmptyMap
    /\ commit_join_set = EmptyMap
    /\ abort_join_set = EmptyMap
    /\ store = [decision |-> "none", epoch |-> 0]
    /\ last_mutation = NoMutation
    /\ commit_hist = [failed |-> FALSE, try_commit |-> 0]
    /\ life_events = {}

(* ------------------- resolution and the state check ------------------- *)

\* Mutant of resolve_keyspace: the cache is not consulted, every call asks
\* the universe and stores what it answers.
resolve_keyspace_uncached(keyspace, lookup) ==
    LET rpc == <<Call("get_keyspace_info", 0)>> IN
    IF lookup.err
    THEN [res |-> Err("InternalError"), id |-> NoKeyspace,
          cache |-> resolved_keyspaces, calls |-> rpc]
    ELSE IF lookup.id = NoKeyspace
    THEN [res |-> Err("KeyspaceDoesNotExist"), id |-> NoKeyspace,
          cache |-> resolved_keyspaces, calls |-> rpc]
    ELSE [res |-> Ok, id |-> lookup.id,
          cache |-> MapInsert(resolved_keyspaces, keyspace, lookup.id),
          calls |-> rpc]

\* resolve_keyspace: [res, id, cache, calls].  `lookup` is what the universe
\* RPC gives back if it is issued.
resolve_keyspace(keyspace, lookup) ==
    IF keyspace \in DOMAIN resolved_keyspaces
    THEN [res |-> Ok, id |-> resolved_keyspaces[keyspace],
          cache |-> resolved_keyspaces, calls |-> <<>>]
    ELSE LET rpc == <<Call("get_keyspace_info", 0)>> IN
         IF lookup.err
         THEN [res |-> Err("InternalError"), id |-> NoKeyspace,
               cache |-> resolved_keyspaces, calls |-> rpc]
         ELSE IF lookup.id = NoKeyspace
         THEN [res |-> Err("KeyspaceDoesNotExist"), id |-> NoKeyspace,
               cache |-> resolved_keyspaces, calls |-> rpc]
         ELSE [res |-> Ok, id |-> lookup.id,
               cache |-> MapInsert(resolved_keyspaces, keyspace, lookup.id),
               calls |-> rpc]

\* resolve_full_record_key: [res, range_id, cache, calls].
resolve_full_record_key(keyspace, key, lookup) ==
    LET ks == resolve_keyspace(keyspace, lookup) IN
    IF ks.res # Ok
    THEN [res |-> ks.res, range_id |-> NoRange, cache |-> ks.cache, calls |-> ks.calls]
    ELSE LET range_id == full_range_id_of_key(ks.id, key)
             cs == Append(ks.calls, Call("full_range_id_of_key", 0)) IN
         IF range_id = NoRange
         THEN [res |-> Err("KeyspaceDoesNotExist"), range_id |-> NoRange,
               cache |-> ks.cache, calls |-> cs]
         ELSE [res |-> Ok, range_id |-> range_id, cache |-> ks.cache, calls |-> cs]

\* Mutants of check_still_running: Committed and Preparing pass the check;
\* Aborted is reported like Preparing and Committed.
check_still_running_lax ==
    IF state = "Aborted" THEN Err("TransactionAborted(Other)") ELSE Ok

\* Mutant of check_still_running: a transaction left Preparing may retry.
check_still_running_retry ==
    CASE state \in {"Running", "Preparing"} -> Ok
      [] state = "Aborted" -> Err("TransactionAborted(Other)")
      [] OTHER -> Err("TransactionNoLongerRunning")

check_still_running_merged ==
    IF state = "Running" THEN Ok ELSE Err("TransactionNoLongerRunning")

check_still_running ==
    CASE state = "Running" -> Ok
      [] state = "Aborted" -> Err("TransactionAborted(Other)")
      [] OTHER -> Err("TransactionNoLongerRunning")

\* Mutant of NewParticipantRange: a new range starts at the INVALID sentinel.
NewParticipantRangeInvalid ==
    [readset |-> {}, writeset |-> EmptyMap, deleteset |-> {},
     leader_sequence_number |-> AsU64(INVALID_LEADER_SEQUENCE_NUMBER)]

NewParticipantRange ==
    [readset |-> {}, writeset |-> EmptyMap, deleteset |-> {},
     leader_sequence_number |-> 0]

\* get_participant_range: the participant map with range_id's entry present.
get_participant_range(range_id) ==
    IF range_id \in DOMAIN participant_ranges THEN participant_ranges
    ELSE MapInsert(participant_ranges, range_id, NewParticipantRange)

\* A client call begins: only when no operation is in progress.
Begin(op) ==
    /\ pc = "idle"
    /\ opCount < MaxOps
    /\ opCount' = opCount + 1
    /\ cur' = op

(* --------------------------- put and del ------------------------------ *)

\* Mutant of PutWrite: a written key is no longer counted as read.
PutWriteDropRead(p, key, val) ==
    [p EXCEPT !.deleteset = @ \ {key}, !.writeset = MapInsert(@, key, val),
              !.readset = @ \ {key}]

\* Mutant of PutWrite: the key stays in the deleteset.
PutWriteKeepDelete(p, key, val) ==
    [p EXCEPT !.writeset = MapInsert(@, key, val)]

PutWrite(p, key, val) ==
    [p EXCEPT !.deleteset = @ \ {key}, !.writeset = MapInsert(@, key, val)]

put(keyspace, key, val, lookup) ==
    /\ UNCHANGED lifeVars
    /\ Begin("put")
    /\ rpcs' = NoRpcs
    /\ UNCHANGED <<state, pc, taskVars, envVars>>
    /\ IF check_still_running # Ok
       THEN /\ ret' = check_still_running
            /\ calls' = <<>>
            /\ UNCHANGED <<participant_ranges, resolved_keyspaces, last_mutation>>
       ELSE LET frk == resolve_full_record_key(keyspace, key, lookup) IN
            /\ calls' = frk.calls
            /\ resolved_keyspaces' = frk.cache
            /\ IF frk.res # Ok
               THEN /\ ret' = frk.res
                    /\ UNCHANGED <<participant_ranges, last_mutation>>
               ELSE LET prs == get_participant_range(frk.range_id) IN
                    /\ participant_ranges' =
                           [prs EXCEPT ![frk.range_id] = PutWrite(@, key, val)]
                    /\ ret' = Ok
                    /\ last_mutation' =
                           [last_mutation EXCEPT ![keyspace, key] = <<"put", val>>]

DelWrite(p, key) ==
    [p EXCEPT !.writeset = MapRemove(@, key), !.deleteset = @ \cup {key}]

\* Mutant of del: a key that cannot be resolved aborts the transaction.
del_abort_unresolved(keyspace, key, lookup) ==
    /\ UNCHANGED lifeVars
    /\ Begin("del")
    /\ rpcs' = NoRpcs
    /\ UNCHANGED <<pc, taskVars, envVars>>
    /\ IF check_still_running # Ok
       THEN /\ ret' = check_still_running
            /\ calls' = <<>>
            /\ UNCHANGED <<state, participant_ranges, resolved_keyspaces,
                           last_mutation>>
       ELSE LET frk == resolve_full_record_key(keyspace, key, lookup) IN
            /\ calls' = frk.calls
            /\ resolved_keyspaces' = frk.cache
            /\ IF frk.res # Ok
               THEN /\ ret' = frk.res
                    /\ state' = "Aborted"
                    /\ UNCHANGED <<participant_ranges, last_mutation>>
               ELSE LET prs == get_participant_range(frk.range_id) IN
                    /\ participant_ranges' =
                           [prs EXCEPT ![frk.range_id] = DelWrite(@, key)]
                    /\ ret' = Ok
                    /\ UNCHANGED state
                    /\ last_mutation' =
                           [last_mutation EXCEPT ![keyspace, key] = <<"del">>]

del(keyspace, key, lookup) ==
    /\ UNCHANGED lifeVars
    /\ Begin("del")
    /\ rpcs' = NoRpcs
    /\ UNCHANGED <<state, pc, taskVars, envVars>>
    /\ IF check_still_running # Ok
       THEN /\ ret' = check_still_running
            /\ calls' = <<>>
            /\ UNCHANGED <<participant_ranges, resolved_keyspaces, last_mutation>>
       ELSE LET frk == resolve_full_record_key(keyspace, key, lookup) IN
            /\ calls' = frk.calls
            /\ resolved_keyspaces' = frk.cache
            /\ IF frk.res # Ok
               THEN /\ ret' = frk.res
                    /\ UNCHANGED <<participant_ranges, last_mutation>>
               ELSE LET prs == get_participant_range(frk.range_id) IN
                    /\ participant_ranges' =
                           [prs EXCEPT ![frk.range_id] = DelWrite(@, key)]
                    /\ ret' = Ok
                    /\ last_mutation' =
                           [last_mutation EXCEPT ![keyspace, key] = <<"del">>]

(* ---------------------- the transaction state store ------------------- *)

\* One durable decision per transaction id; the decision never changes.
StoreTryCommit(e) ==
    IF store.decision = "none"
    THEN [store EXCEPT !.decision = "committed", !.epoch = e]
    ELSE store

StoreTryAbort ==
    IF store.decision = "none"
    THEN [store EXCEPT !.decision = "aborted"]
    ELSE store

(* ------------------------------ tasks --------------------------------- *)

\* Dropping a JoinSet aborts the tasks that have not finished.
DropJoinSet(js) ==
    [r \in DOMAIN js |->
        IF js[r].st = "spawned" THEN [js[r] EXCEPT !.st = "cancelled"]
        ELSE js[r]]

Task ==
    [st |-> "spawned", out |-> "none", lease |-> NoLease, has_reads |-> FALSE,
     writes |-> EmptyMap, deletes |-> {}]

\* A panic unwinds the operation: its join sets are dropped and the
\* transaction takes no further call.
PanicWith(msg) ==
    /\ pc' = "panicked"
    /\ ret' = Panic(msg)
    /\ prepare_join_set' = DropJoinSet(prepare_join_set)
    /\ commit_join_set' = DropJoinSet(commit_join_set)
    /\ abort_join_set' = DropJoinSet(abort_join_set)

(* ---------------------------- record_abort ---------------------------- *)

\* Lines 203-216: one abort task per participant range.
RecordAbortSpawn(prs) == [r \in DOMAIN prs |-> Task]

\* record_abort up to its first await (lines 197-216).
record_abort_begin(prs) ==
    /\ state' = "Aborted"
    /\ abort_join_set' = RecordAbortSpawn(prs)
    /\ pc' = "record_abort"
    /\ ret' = Pending

\* An abort task runs: the abort RPC goes to its range and succeeds ("ok")
\* or fails ("err"); line 228 drops the result.
AbortTask(r, out) ==
    /\ UNCHANGED <<histVars, commit_hist>>
    /\ life_events' = life_events \cup {"abort_rpc"}
    /\ r \in DOMAIN abort_join_set
    /\ abort_join_set[r].st = "spawned"
    /\ abort_join_set' = [abort_join_set EXCEPT ![r].st = "done", ![r].out = out]
    /\ rpcs' = Rpc(r, "abort", 0)
    /\ UNCHANGED <<txVars, pc, cur, ret, calls, opCount, epoch, prepare_join_set,
                   commit_join_set, envVars>>

\* Lines 217-227: try_abort_transaction(...).await.unwrap(), and the match.
record_abort_try_abort(rpc) ==
    /\ UNCHANGED <<histVars, commit_hist>>
    /\ life_events' = life_events \cup {"try_abort"}
    /\ pc = "record_abort"
    /\ calls' = Append(calls, Call("try_abort", 0))
    /\ UNCHANGED <<txVars, cur, rpcs, opCount, epoch>>
    /\ IF rpc = "transport_error"
       THEN /\ PanicWith("unwrap")
            /\ UNCHANGED store
       ELSE /\ store' = StoreTryAbort
            /\ IF store.decision = "committed"
               THEN PanicWith("transaction committed without coordinator consent!")
               ELSE /\ pc' = "abort_join"
                    /\ UNCHANGED <<ret, prepare_join_set, commit_join_set,
                                   abort_join_set>>

\* Mutant of ReturnAfterAbort: a failed abort RPC fails the caller.
ReturnAfterAbortChecked(op) ==
    IF \E r \in DOMAIN abort_join_set : abort_join_set[r].out = "err"
    THEN Err("InternalError")
    ELSE CASE op = "get" -> Err("TransactionAborted(RangeLeadershipChanged)")
           [] op = "commit" -> Err("TransactionAborted(PrepareFailed)")
           [] OTHER -> Ok

\* What the caller of record_abort returns once record_abort is back
\* (lines 169, 239, 287).
ReturnAfterAbort(op) ==
    CASE op = "get" -> Err("TransactionAborted(RangeLeadershipChanged)")
      [] op = "commit" -> Err("TransactionAborted(PrepareFailed)")
      [] OTHER -> Ok

\* Line 228 has drained the abort join set; record_abort and its caller
\* return (dropping commit()'s prepare_join_set).
record_abort_return ==
    /\ UNCHANGED histVars
    /\ commit_hist' = IF cur = "commit" THEN [commit_hist EXCEPT !.failed = TRUE]
                      ELSE commit_hist
    /\ UNCHANGED life_events
    /\ pc = "abort_join"
    /\ \A r \in DOMAIN abort_join_set : abort_join_set[r].st = "done"
    /\ pc' = "idle"
    /\ ret' = ReturnAfterAbort(cur)
    /\ prepare_join_set' = DropJoinSet(prepare_join_set)
    /\ UNCHANGED <<txVars, cur, calls, rpcs, opCount, epoch, commit_join_set,
                   abort_join_set, envVars>>

\* Mutant of AlreadyAborted: abort() has no arm for State::Aborted.
AlreadyAbortedNever == FALSE

\* Line 234: the State::Aborted arm of abort()'s match.
AlreadyAborted == state = "Aborted"

abort ==
    /\ UNCHANGED <<histVars, lifeVars>>
    /\ Begin("abort")
    /\ calls' = <<>>
    /\ rpcs' = NoRpcs
    /\ UNCHANGED <<participant_ranges, resolved_keyspaces, epoch,
                   prepare_join_set, commit_join_set, envVars>>
    /\ IF AlreadyAborted
       THEN /\ ret' = Ok
            /\ UNCHANGED <<state, pc, abort_join_set>>
       ELSE IF check_still_running # Ok
       THEN /\ ret' = check_still_running
            /\ UNCHANGED <<state, pc, abort_join_set>>
       ELSE record_abort_begin(participant_ranges)

(* -------------------------------- get --------------------------------- *)

\* Mutant of PinLeader: every valid leader sequence number is recorded.
PinLeaderLatest(p, current) ==
    IF current # INVALID_LEADER_SEQUENCE_NUMBER
    THEN [p EXCEPT !.leader_sequence_number = AsU64(current)]
    ELSE p

\* Lines 159-166: the first valid leader sequence number seen is recorded.
PinLeader(p, current) ==
    IF /\ current # INVALID_LEADER_SEQUENCE_NUMBER
       /\ p.leader_sequence_number = AsU64(UNSET_LEADER_SEQUENCE_NUMBER)
    THEN [p EXCEPT !.leader_sequence_number = AsU64(current)]
    ELSE p

\* Mutant of LeaderChanged: only a leader sequence number that went
\* backwards counts as a change.
LeaderChangedBackwards(p, current) == current < AsI64(p.leader_sequence_number)

\* Line 167: the response's number differs from the recorded one.
LeaderChanged(p, current) == current # AsI64(p.leader_sequence_number)

\* What a read RPC may give back: an error, or a GetResult carrying the
\* range's leader sequence number.
ReadResponses ==
    {[err |-> TRUE, leader_sequence_number |-> 0]} \cup
    {[err |-> FALSE, leader_sequence_number |-> n] : n \in LeaderSeqs}

\* Mutant of ReadYourWrites: the deleteset is not consulted.
ReadYourWritesNoDelete(p, key) ==
    IF key \in DOMAIN p.writeset THEN <<"Some", p.writeset[key]>>
    ELSE <<"miss">>

\* Lines 143-148: Some(v) from the writeset, None from the deleteset,
\* "miss" when the key is in neither.
ReadYourWrites(p, key) ==
    IF key \in DOMAIN p.writeset THEN <<"Some", p.writeset[key]>>
    ELSE IF key \in p.deleteset THEN <<"None">>
    ELSE <<"miss">>

get(keyspace, key, lookup, resp) ==
    /\ UNCHANGED <<histVars, lifeVars>>
    /\ Begin("get")
    /\ UNCHANGED <<epoch, envVars>>
    /\ IF check_still_running # Ok
       THEN /\ ret' = check_still_running
            /\ calls' = <<>>
            /\ rpcs' = NoRpcs
            /\ UNCHANGED <<txVars, pc, prepare_join_set, commit_join_set,
                           abort_join_set>>
       ELSE LET frk == resolve_full_record_key(keyspace, key, lookup) IN
            /\ resolved_keyspaces' = frk.cache
            /\ calls' = frk.calls
            /\ IF frk.res # Ok
               THEN /\ ret' = frk.res
                    /\ rpcs' = NoRpcs
                    /\ UNCHANGED <<state, participant_ranges, pc, prepare_join_set,
                                   commit_join_set, abort_join_set>>
               ELSE
               LET prs == get_participant_range(frk.range_id)
                   p == prs[frk.range_id]
                   read == [NoRpcs EXCEPT ![frk.range_id] = <<Call("get", 0)>>]
                   current_range_leader_seq_num == resp.leader_sequence_number
                   pinned == PinLeader(p, current_range_leader_seq_num)
               IN
               IF ReadYourWrites(p, key) # <<"miss">>
               THEN /\ ret' = ReadYourWrites(p, key)
                    /\ rpcs' = NoRpcs
                    /\ participant_ranges' = prs
                    /\ UNCHANGED <<state, pc, prepare_join_set, commit_join_set,
                                   abort_join_set>>
               ELSE IF resp.err
               THEN /\ rpcs' = read
                    /\ participant_ranges' = prs
                    /\ PanicWith("unwrap")
                    /\ UNCHANGED state
               ELSE IF LeaderChanged(pinned, current_range_leader_seq_num)
               THEN /\ rpcs' = read
                    /\ participant_ranges' = [prs EXCEPT ![frk.range_id] = pinned]
                    /\ record_abort_begin(prs)
                    /\ UNCHANGED <<prepare_join_set, commit_join_set>>
               ELSE /\ rpcs' = read
                    /\ participant_ranges' =
                           [prs EXCEPT ![frk.range_id] =
                               [pinned EXCEPT !.readset = @ \cup {key}]]
                    /\ ret' = StoredValue(frk.range_id, key)
                    /\ UNCHANGED <<state, pc, prepare_join_set, commit_join_set,
                                   abort_join_set>>

(* ------------------------------- commit ------------------------------- *)

\* Mutant of PrepareRequest: every prepare says the range was read.
PrepareRequestAlwaysReads(info) ==
    [st |-> "spawned", out |-> "none", lease |-> NoLease,
     has_reads |-> TRUE,
     writes |-> info.writeset,
     deletes |-> info.deleteset]

\* Lines 250-279: one prepare task per participant range, with its request.
PrepareRequest(info) ==
    [st |-> "spawned", out |-> "none", lease |-> NoLease,
     has_reads |-> info.readset # {},
     writes |-> info.writeset,
     deletes |-> info.deleteset]

PrepareSpawn == [r \in DOMAIN participant_ranges |-> PrepareRequest(participant_ranges[r])]

\* Lines 247-279.
commit_begin ==
    /\ UNCHANGED histVars
    /\ commit_hist' = IF check_still_running # Ok
                      THEN [commit_hist EXCEPT !.failed = TRUE]
                      ELSE commit_hist
    /\ UNCHANGED life_events
    /\ Begin("commit")
    /\ calls' = <<>>
    /\ rpcs' = NoRpcs
    /\ UNCHANGED <<participant_ranges, resolved_keyspaces, epoch,
                   commit_join_set, abort_join_set, envVars>>
    /\ IF check_still_running # Ok
       THEN /\ ret' = check_still_running
            /\ UNCHANGED <<state, pc, prepare_join_set>>
       ELSE /\ state' = "Preparing"
            /\ prepare_join_set' = PrepareSpawn
            /\ pc' = "read_epoch"
            /\ ret' = Pending

\* How a prepare task may end: with the participant's PrepareResult ("ok")
\* and its epoch lease, with an error returned by the range client ("err"),
\* or by panicking ("join_error").
PrepareOutcomes ==
    {[out |-> "ok", lease |-> l] : l \in Leases} \cup
    {[out |-> o, lease |-> NoLease] : o \in {"err", "join_error"}}

\* A prepare task runs: the prepare RPC goes to its range and the task ends.
PrepareTask(r, res) ==
    /\ UNCHANGED <<histVars, lifeVars>>
    /\ r \in DOMAIN prepare_join_set
    /\ prepare_join_set[r].st = "spawned"
    /\ prepare_join_set' =
           [prepare_join_set EXCEPT ![r].st = "done", ![r].out = res.out,
                                    ![r].lease = res.lease]
    /\ rpcs' = Rpc(r, "prepare", 0)
    /\ UNCHANGED <<txVars, pc, cur, ret, calls, opCount, epoch,
                   commit_join_set, abort_join_set, envVars>>

\* Line 280: self.epoch_reader.read_epoch().await.unwrap().
commit_read_epoch(rpc, e) ==
    /\ UNCHANGED <<histVars, lifeVars>>
    /\ pc = "read_epoch"
    /\ calls' = Append(calls, Call("read_epoch", 0))
    /\ UNCHANGED <<txVars, cur, rpcs, opCount, envVars>>
    /\ IF rpc = "transport_error"
       THEN /\ PanicWith("unwrap")
            /\ UNCHANGED epoch
       ELSE /\ epoch' = e
            /\ pc' = "join_prepares"
            /\ UNCHANGED <<ret, prepare_join_set, commit_join_set, abort_join_set>>

\* error_from_rangeclient_error: the translation is a stub that panics.
error_from_rangeclient_error ==
    Panic("encountered rangeclient error, translation not yet implemented.")

\* Lines 284-293: what one result of join_next() makes commit() do.
OnPrepareResult(out) ==
    CASE out = "join_error" -> "record_abort"
      [] out = "err" -> "panic"
      [] OTHER -> "continue"

\* Lines 283-298: one turn of `while let Some(res) = join_next().await`.
commit_join_next(r) ==
    /\ UNCHANGED <<histVars, lifeVars>>
    /\ pc = "join_prepares"
    /\ r \in DOMAIN prepare_join_set
    /\ prepare_join_set[r].st = "done"
    /\ UNCHANGED <<participant_ranges, resolved_keyspaces, cur, calls, rpcs,
                   opCount, epoch, envVars>>
    /\ LET joined == [prepare_join_set EXCEPT ![r].st = "joined"]
           todo == OnPrepareResult(prepare_join_set[r].out) IN
       CASE todo = "record_abort" ->
                /\ prepare_join_set' = joined
                /\ record_abort_begin(participant_ranges)
                /\ UNCHANGED commit_join_set
         [] todo = "panic" ->
                /\ pc' = "panicked"
                /\ ret' = error_from_rangeclient_error
                /\ prepare_join_set' = DropJoinSet(joined)
                /\ UNCHANGED <<state, commit_join_set, abort_join_set>>
         [] OTHER ->
                /\ prepare_join_set' = joined
                /\ UNCHANGED <<state, pc, ret, commit_join_set, abort_join_set>>

\* Lines 300-310, the epoch lease check, are commented out in the source:
\* every lease passes.
LeaseCheck(lease, e) == TRUE

\* Mutant of PreparesJoined: the join loop is left after its first turn.
PreparesJoinedAny ==
    \/ prepare_join_set = EmptyMap
    \/ \E r \in DOMAIN prepare_join_set : prepare_join_set[r].st = "joined"

\* Line 283: join_next() returns None once every task has been joined.
PreparesJoined == \A r \in DOMAIN prepare_join_set : prepare_join_set[r].st = "joined"

\* Lines 331-344: one commit task per participant range.
CommitSpawn == [r \in DOMAIN participant_ranges |-> Task]

\* Mutant of TryCommitEpoch: the epoch is read again after the prepares and
\* the fresher value goes to the store.
TryCommitEpochFresh == epoch + 1

\* The epoch commit() hands to try_commit_transaction (line 316).
TryCommitEpoch == epoch

\* Lines 320-324: try_commit answered Aborted.
OnTryCommitAborted ==
    /\ ret' = Err("TransactionAborted(Other)")
    /\ pc' = "idle"
    /\ UNCHANGED <<state, commit_join_set>>

\* Lines 314-344: try_commit, then the commit tasks.
commit_try_commit(rpc) ==
    /\ UNCHANGED histVars
    /\ commit_hist' =
           [failed |-> \/ commit_hist.failed
                       \/ rpc = "answer" /\ StoreTryCommit(TryCommitEpoch).decision = "aborted",
            try_commit |-> commit_hist.try_commit + 1]
    /\ life_events' =
           IF rpc = "answer" /\ StoreTryCommit(TryCommitEpoch).decision = "committed"
           THEN life_events \cup {"committed"}
           ELSE life_events
    /\ pc = "join_prepares"
    /\ PreparesJoined
    /\ \A r \in DOMAIN prepare_join_set : LeaseCheck(prepare_join_set[r].lease, epoch)
    /\ calls' = Append(calls, Call("try_commit", TryCommitEpoch))
    /\ UNCHANGED <<participant_ranges, resolved_keyspaces, cur, rpcs, opCount,
                   epoch>>
    /\ IF rpc = "transport_error"
       THEN /\ PanicWith("unwrap")
            /\ UNCHANGED <<state, store>>
       ELSE /\ store' = StoreTryCommit(TryCommitEpoch)
            /\ UNCHANGED <<prepare_join_set, abort_join_set>>
            /\ IF store'.decision = "aborted"
               THEN OnTryCommitAborted
               ELSE IF store'.epoch # epoch
               THEN /\ pc' = "panicked"
                    /\ ret' = Panic("assertion failed: i.epoch == epoch")
                    /\ UNCHANGED <<state, commit_join_set>>
               ELSE /\ state' = "Committed"
                    /\ commit_join_set' = CommitSpawn
                    /\ pc' = "join_commits"
                    /\ UNCHANGED ret

\* Mutant of CommitRpcEpoch: the epoch is read again for the commit RPCs.
CommitRpcEpochLater == epoch + 1

\* The epoch a commit task hands to commit_transaction (line 339).
CommitRpcEpoch == epoch

\* A commit task runs: the commit RPC goes to its range and succeeds ("ok")
\* or fails ("err"); line 345 drops the result.
CommitTask(r, out) ==
    /\ UNCHANGED <<histVars, commit_hist>>
    /\ life_events' = life_events \cup {"commit_rpc"}
    /\ r \in DOMAIN commit_join_set
    /\ commit_join_set[r].st = "spawned"
    /\ commit_join_set' = [commit_join_set EXCEPT ![r].st = "done", ![r].out = out]
    /\ rpcs' = Rpc(r, "commit", CommitRpcEpoch)
    /\ UNCHANGED <<txVars, pc, cur, ret, calls, opCount, epoch, prepare_join_set,
                   abort_join_set, envVars>>

\* Lines 345-346: the commit join set has drained; Ok(()).
commit_return ==
    /\ UNCHANGED <<histVars, lifeVars>>
    /\ pc = "join_commits"
    /\ \A r \in DOMAIN commit_join_set : commit_join_set[r].st = "done"
    /\ pc' = "idle"
    /\ ret' = Ok
    /\ UNCHANGED <<txVars, cur, calls, rpcs, opCount, taskVars, envVars>>

(* ---------------------------- environment ----------------------------- *)

\* Another party (the timeout daemon) aborts the transaction at the store.
\* The coordinator sees the decision only in try_commit and try_abort, and
\* try_abort answers Aborted either way, so the abort is taken at the one
\* point where it is seen: a commit about to call try_commit.
StoreTimeout ==
    /\ UNCHANGED <<histVars, lifeVars>>
    /\ pc = "join_prepares"
    /\ PreparesJoined
    /\ store.decision = "none"
    /\ store' = [store EXCEPT !.decision = "aborted"]
    /\ UNCHANGED <<txVars, pc, cur, ret, calls, rpcs, opCount, taskVars>>

RpcOutcomes == {"answer", "transport_error"}

Put == \E ks \in Keyspaces, k \in Keys, v \in Vals : \E l \in Lookups(ks) :
          put(ks, k, v, l)
Del == \E ks \in Keyspaces, k \in Keys : \E l \in Lookups(ks) : del(ks, k, l)
Get == \E ks \in Keyspaces, k \in Keys, resp \in ReadResponses :
          \E l \in Lookups(ks) : get(ks, k, l, resp)

Next ==
    \/ Put
    \/ Del
    \/ Get
    \/ abort
    \/ \E rpc \in RpcOutcomes : record_abort_try_abort(rpc)
    \/ \E r \in Ranges, out \in {"ok", "err"} : AbortTask(r, out)
    \/ record_abort_return
    \/ commit_begin
    \/ \E rpc \in RpcOutcomes, e \in Epochs : commit_read_epoch(rpc, e)
    \/ \E r \in Ranges, res \in PrepareOutcomes : PrepareTask(r, res)
    \/ \E r \in Ranges : commit_join_next(r)
    \/ \E rpc \in RpcOutcomes : commit_try_commit(rpc)
    \/ \E r \in Ranges, out \in {"ok", "err"} : CommitTask(r, out)
    \/ commit_return
    \/ StoreTimeout

Spec == Init /\ [][Next]_vars

(* ------------------------------ claims -------------------------------- *)

CountKind(seq, kind) == Cardinality({i \in DOMAIN seq : seq[i].kind = kind})
CommitRpcs(r) == {i \in DOMAIN rpcs[r] : rpcs[r][i].kind = "commit"}
Participants == DOMAIN participant_ranges
CommitEnded == cur = "commit" /\ pc \in {"idle", "panicked"}

\* C1: within one commit() call try_commit is issued at most once, and only
\* after a prepare RPC went to every participant range and every prepare
\* task was joined with a successful result; a commit() that returns Ok
\* issued exactly one try_commit.
C1_TryCommitOnceAfterPrepares ==
    cur = "commit" =>
        /\ CountKind(calls, "try_commit") <= 1
        /\ CountKind(calls, "try_commit") = 1 =>
              /\ DOMAIN prepare_join_set = Participants
              /\ \A r \in Participants :
                    /\ CountKind(rpcs[r], "prepare") = 1
                    /\ prepare_join_set[r].st = "joined"
                    /\ prepare_join_set[r].out = "ok"
        /\ (pc = "idle" /\ ret = Ok) => CountKind(calls, "try_commit") = 1

C1_Witness ==
    /\ cur = "commit" /\ pc = "idle" /\ ret = Ok
    /\ Cardinality(Participants) = 2

\* C2: a commit RPC is sent only once the store has decided Committed for
\* this commit()'s try_commit, to a participant range, with the epoch passed
\* to try_commit; once Committed, commit() cannot fail: it returns Ok after
\* one commit RPC per participant range, whatever the RPCs' results.
C2_CommitRpcAfterDecision ==
    /\ \A r \in Ranges : \A i \in CommitRpcs(r) :
          /\ cur = "commit" /\ state = "Committed" /\ store.decision = "committed"
          /\ r \in Participants
          /\ \E j \in DOMAIN calls : calls[j] = Call("try_commit", rpcs[r][i].epoch)
    /\ (/\ cur = "commit"
        /\ CountKind(calls, "try_commit") = 1
        /\ store.decision = "committed") =>
          /\ state = "Committed"
          /\ pc \in {"join_commits", "idle"}
          /\ pc = "idle" =>
                /\ ret = Ok
                /\ \A r \in Participants : Cardinality(CommitRpcs(r)) = 1

C2_Witness ==
    /\ cur = "commit" /\ pc = "idle" /\ ret = Ok /\ state = "Committed"
    /\ Cardinality(Participants) = 2
    /\ \A r \in Participants : commit_join_set[r].out = "err"

\* C3: when all prepares succeed and the store answers try_commit with
\* Aborted, commit() fails with TransactionAborted(Other), sends no commit
\* RPC, and leaves the state Aborted.
C3_StoreAbortLeavesAborted ==
    (/\ cur = "commit" /\ pc = "idle"
     /\ CountKind(calls, "try_commit") = 1
     /\ store.decision = "aborted") =>
        /\ ret = Err("TransactionAborted(Other)")
        /\ \A r \in Ranges : CommitRpcs(r) = {}
        /\ state = "Aborted"

\* C4: when, with several participant ranges, exactly one prepare ends with
\* an error returned by the range client (the others succeed and the epoch
\* was read), commit() returns TransactionAborted(PrepareFailed), the state
\* is Aborted, an abort RPC went to every participant range, try_abort was
\* called and try_commit was not.
C4_PrepareErrorAborts ==
    (/\ CommitEnded
     /\ epoch \in Epochs
     /\ Cardinality(Participants) >= 2
     /\ Cardinality({r \in DOMAIN prepare_join_set : prepare_join_set[r].out = "err"}) = 1
     /\ \A r \in DOMAIN prepare_join_set : prepare_join_set[r].out \in {"err", "ok"}) =>
        /\ ret = Err("TransactionAborted(PrepareFailed)")
        /\ state = "Aborted"
        /\ \A r \in Participants : CountKind(rpcs[r], "abort") = 1
        /\ CountKind(calls, "try_abort") = 1
        /\ CountKind(calls, "try_commit") = 0

LeaseCovers(lease, e) == lease[1] <= e /\ e <= lease[2]

\* C5: commit() calls try_commit only if every participant's epoch lease
\* covers the commit epoch; when all prepares succeed and some lease does
\* not cover it, the transaction is aborted and commit() fails with
\* TransactionAborted(RangeLeaseExpired).
C5_CommitOnlyUnderLease ==
    cur = "commit" =>
        /\ CountKind(calls, "try_commit") >= 1 =>
              \A r \in DOMAIN prepare_join_set :
                  LeaseCovers(prepare_join_set[r].lease, epoch)
        /\ (/\ pc = "idle"
            /\ \A r \in DOMAIN prepare_join_set : prepare_join_set[r].out = "ok"
            /\ \E r \in DOMAIN prepare_join_set :
                  ~LeaseCovers(prepare_join_set[r].lease, epoch)) =>
              /\ ret = Err("TransactionAborted(RangeLeaseExpired)")
              /\ state = "Aborted"

LegalTransitions ==
    {<<"Running", "Preparing">>, <<"Preparing", "Committed">>,
     <<"Preparing", "Aborted">>, <<"Running", "Aborted">>}

\* C6: the state changes only along Running->Preparing, Preparing->Committed,
\* Preparing->Aborted and Running->Aborted; Committed and Aborted, having no
\* outgoing edge, never change.
C6_LegalStateGraph ==
    [][state' # state => <<state, state'>> \in LegalTransitions]_vars

C6_Witness == state = "Committed" /\ cur = "abort" /\ pc = "idle"

\* C7: a get, put, del or commit entered in a state other than Running
\* fails, with TransactionAborted(Other) in Aborted and with
\* TransactionNoLongerRunning in Preparing or Committed, calls no
\* collaborator and changes neither the state nor any buffer.
C7_NotRunningRejected ==
    [][(/\ pc = "idle" /\ opCount' = opCount + 1
        /\ cur' \in {"get", "put", "del", "commit"}
        /\ state # "Running") =>
           /\ ret' = IF state = "Aborted" THEN Err("TransactionAborted(Other)")
                     ELSE Err("TransactionNoLongerRunning")
           /\ pc' = "idle"
           /\ calls' = <<>>
           /\ rpcs' = NoRpcs
           /\ UNCHANGED <<txVars, taskVars, envVars, histVars>>]_vars

C7_Witness ==
    /\ state = "Preparing" /\ pc = "idle" /\ cur = "put"
    /\ ret = Err("TransactionNoLongerRunning")

RangeOf(ks, k) == full_range_id_of_key(resolved_keyspaces[ks], k)

\* C8: in every participant range the writeset's keys and the deleteset are
\* disjoint; a key whose last mutation was a put is in its range's writeset
\* and not in its deleteset, one whose last mutation was a del is in the
\* deleteset and not in the writeset.
C8_WriteDeleteDisjoint ==
    /\ \A r \in Participants :
          (DOMAIN participant_ranges[r].writeset) \cap participant_ranges[r].deleteset = {}
    /\ \A ks \in Keyspaces, k \in Keys :
          last_mutation[ks, k] # <<"none">> =>
             /\ ks \in DOMAIN resolved_keyspaces
             /\ RangeOf(ks, k) \in Participants
             /\ LET p == participant_ranges[RangeOf(ks, k)] IN
                IF last_mutation[ks, k] = <<"del">>
                THEN k \in p.deleteset /\ k \notin DOMAIN p.writeset
                ELSE k \in DOMAIN p.writeset /\ k \notin p.deleteset

C8_Witness ==
    /\ last_mutation["a", "k1"] \in {<<"put", "v1">>, <<"put", "v2">>}
    /\ last_mutation["a", "k2"] = <<"del">>
    /\ \E r \in Participants :
          /\ "k1" \in DOMAIN participant_ranges[r].writeset
          /\ "k2" \in participant_ranges[r].deleteset
          /\ "k1" \in participant_ranges[r].readset

GetOf(ks, k) == \E resp \in ReadResponses : \E l \in Lookups(ks) : get(ks, k, l, resp)

\* C9: in a Running transaction a get of a key whose last mutation was
\* put(k, v) returns Some(v), a get of a key whose last mutation was del(k)
\* returns None, and neither sends a read RPC.
C9_ReadYourWrites ==
    [][\A ks \in Keyspaces, k \in Keys :
          (state = "Running" /\ last_mutation[ks, k] # <<"none">> /\ GetOf(ks, k)) =>
             /\ ret' = IF last_mutation[ks, k] = <<"del">> THEN <<"None">>
                       ELSE <<"Some", last_mutation[ks, k][2]>>
             /\ rpcs' = NoRpcs
             /\ pc' = "idle"]_vars

C9_Witness ==
    /\ cur = "get" /\ pc = "idle" /\ state = "Running"
    /\ ret = <<"Some", "v2">> /\ rpcs = NoRpcs
    /\ last_mutation["a", "k2"] = <<"put", "v2">>
    /\ last_mutation["a", "k1"] = <<"del">>

NonSentinel(v) ==
    /\ v # AsU64(UNSET_LEADER_SEQUENCE_NUMBER)
    /\ v # AsU64(INVALID_LEADER_SEQUENCE_NUMBER)

\* C10: once a participant range's leader_sequence_number holds a
\* non-sentinel value, no step changes it or removes the range.
C10_LeaderPinned ==
    [][\A r \in Participants :
          NonSentinel(participant_ranges[r].leader_sequence_number) =>
             /\ r \in DOMAIN participant_ranges'
             /\ participant_ranges'[r].leader_sequence_number =
                    participant_ranges[r].leader_sequence_number]_vars

C10_Witness ==
    /\ cur = "get" /\ state = "Aborted"
    /\ \E r \in Participants :
          /\ participant_ranges[r].leader_sequence_number = 7
          /\ CountKind(rpcs[r], "get") = 1

AbortRpcs(r) == CountKind(rpcs[r], "abort")
ReadRpcSent == \E r \in Ranges : CountKind(rpcs[r], "get") = 1

\* C11: a get in a Running transaction that reads from storage a range
\* whose leader sequence number is pinned, and is answered with a different
\* number, sets the state to Aborted, starts record_abort with an abort task
\* for every participant range and leaves every readset as it was; when
\* that get returns, it returns TransactionAborted(RangeLeadershipChanged),
\* one abort RPC has gone to every participant range and try_abort has
\* been called once.
C11_LeaderChangeAborts ==
    [][/\ (state = "Running" /\ pc = "idle" /\ cur' = "get") =>
          \A ks \in DOMAIN resolved_keyspaces, k \in Keys, resp \in ReadResponses :
            LET r == RangeOf(ks, k) IN
            (/\ r \in Participants
             /\ NonSentinel(participant_ranges[r].leader_sequence_number)
             /\ k \notin DOMAIN participant_ranges[r].writeset
             /\ k \notin participant_ranges[r].deleteset
             /\ ~resp.err
             /\ AsU64(resp.leader_sequence_number) #
                    participant_ranges[r].leader_sequence_number
             /\ \E l \in Lookups(ks) : get(ks, k, l, resp)) =>
                /\ state' = "Aborted"
                /\ pc' = "record_abort"
                /\ participant_ranges' = participant_ranges
                /\ rpcs'[r] = <<Call("get", 0)>>
                /\ DOMAIN abort_join_set' = Participants
                /\ \A q \in Participants : abort_join_set'[q].st = "spawned"
       /\ (cur = "get" /\ state = "Aborted" /\ pc = "abort_join" /\ pc' = "idle") =>
                /\ ret' = Err("TransactionAborted(RangeLeadershipChanged)")
                /\ state' = "Aborted"
                /\ \A q \in Participants : CountKind(rpcs'[q], "abort") = 1
                /\ CountKind(calls', "try_abort") = 1]_vars

C11_Witness ==
    /\ cur = "get" /\ pc = "idle" /\ state = "Aborted"
    /\ ret = Err("TransactionAborted(RangeLeadershipChanged)")
    /\ Cardinality(Participants) = 2
    /\ \E r \in Participants :
          /\ participant_ranges[r].leader_sequence_number = 7
          /\ participant_ranges[r].readset = {"k1"}
          /\ rpcs[r] = <<Call("get", 0), Call("abort", 0)>>
    /\ \A r \in Participants : AbortRpcs(r) = 1

\* C12: the assertion i.epoch == epoch never fails: whenever the store has
\* answered this commit()'s try_commit with Committed, the epoch it
\* recorded is the epoch commit() read from the epoch reader and passed to
\* try_commit.
C12_CommittedEpochIsReadEpoch ==
    /\ ret # Panic("assertion failed: i.epoch == epoch")
    /\ (/\ cur = "commit"
        /\ CountKind(calls, "try_commit") = 1
        /\ store.decision = "committed") =>
          /\ epoch \in Epochs
          /\ store.epoch = epoch
          /\ calls = <<Call("read_epoch", 0), Call("try_commit", epoch)>>

C12_Witness ==
    /\ cur = "commit" /\ state = "Committed"
    /\ epoch = 2
    /\ store = [decision |-> "committed", epoch |-> 2]
    /\ Participants # {}

AbortEntered == pc = "idle" /\ opCount' = opCount + 1 /\ cur' = "abort"

\* C13: abort() entered in state Aborted returns Ok at once, sends no abort
\* RPC, makes no call to the state store or any other collaborator, and
\* leaves the state, the participant map, the keyspace cache, the join sets
\* and the store's record unchanged.
C13_AbortIdempotent ==
    [][(AbortEntered /\ state = "Aborted") =>
          /\ ret' = Ok
          /\ pc' = "idle"
          /\ calls' = <<>>
          /\ rpcs' = NoRpcs
          /\ UNCHANGED <<txVars, taskVars, envVars, histVars, lifeVars>>]_vars

C13_Witness ==
    /\ cur = "abort" /\ pc = "idle" /\ state = "Aborted" /\ ret = Ok
    /\ calls = <<>> /\ rpcs = NoRpcs
    /\ store.decision = "aborted"
    /\ \E r \in Participants :
          /\ participant_ranges[r].leader_sequence_number = 7
          /\ abort_join_set[r].st = "done"

\* C14 as stated: every abort() that returns, returns Ok, whatever the
\* state it was entered in.
C14_AbortAlwaysOk ==
    (cur = "abort" /\ pc = "idle") => ret = Ok

\* C14, amended: abort() returns Ok when entered in Aborted (at once) or in
\* Running (after record_abort); entered in Preparing or Committed it fails
\* with TransactionNoLongerRunning, calls no collaborator and changes
\* nothing.
C14_AbortOkFromRunningOrAborted ==
    [][/\ (AbortEntered /\ state \in {"Preparing", "Committed"}) =>
             /\ ret' = Err("TransactionNoLongerRunning")
             /\ pc' = "idle"
             /\ calls' = <<>>
             /\ rpcs' = NoRpcs
             /\ UNCHANGED <<txVars, taskVars, envVars, histVars, lifeVars>>
       /\ (AbortEntered /\ state = "Aborted") => ret' = Ok /\ pc' = "idle"
       /\ (AbortEntered /\ state = "Running") => pc' = "record_abort"
       /\ (cur = "abort" /\ pc = "abort_join" /\ pc' = "idle") => ret' = Ok]_vars

C14_Witness ==
    /\ cur = "abort" /\ pc = "idle" /\ state = "Committed"
    /\ ret = Err("TransactionNoLongerRunning")
    /\ store.decision = "committed"
    /\ abort_join_set = EmptyMap

CommitEntered == pc = "idle" /\ opCount' = opCount + 1 /\ cur' = "commit"

\* C15: once a commit() call has failed, every later commit() call fails at
\* once, with TransactionAborted in Aborted and TransactionNoLongerRunning
\* otherwise, spawns no prepare task, sends no RPC and calls no collaborator;
\* and try_commit is called at most once over the transaction's life.
C15_FailedCommitIsTerminal ==
    [][/\ (CommitEntered /\ commit_hist.failed) =>
             /\ state # "Running"
             /\ ret' = IF state = "Aborted" THEN Err("TransactionAborted(Other)")
                       ELSE Err("TransactionNoLongerRunning")
             /\ pc' = "idle"
             /\ calls' = <<>>
             /\ rpcs' = NoRpcs
             /\ commit_hist'.try_commit = commit_hist.try_commit
             /\ UNCHANGED <<txVars, taskVars, envVars>>
       /\ commit_hist'.try_commit <= 1]_vars

C15_Witness ==
    /\ cur = "commit" /\ pc = "idle"
    /\ commit_hist = [failed |-> TRUE, try_commit |-> 1]
    /\ store.decision = "aborted"
    /\ ret = Err("TransactionNoLongerRunning")
    /\ calls = <<>>

OpEntered == pc = "idle" /\ opCount' = opCount + 1
LookupCalls(cs) == CountKind(cs, "get_keyspace_info")
OpOn(ks, k, l) ==
    CASE cur' = "put" -> \E v \in Vals : put(ks, k, v, l)
      [] cur' = "del" -> del(ks, k, l)
      [] cur' = "get" -> \E resp \in ReadResponses : get(ks, k, l, resp)
      [] OTHER -> FALSE

KeyspaceDoesNotExist == Err("KeyspaceDoesNotExist")

UnresolvedReturn ==
    /\ pc = "idle" /\ opCount' = opCount + 1
    /\ cur' \in {"get", "put", "del"}
    /\ ret' = KeyspaceDoesNotExist

\* What resolution will find for (ks, k) when the directory, if asked,
\* answers l: a range owning the key.
Resolvable(ks, k, l) ==
    IF ks \in DOMAIN resolved_keyspaces
    THEN RangeOf(ks, k) # NoRange
    ELSE ~l.err /\ l.id # NoKeyspace /\ full_range_id_of_key(l.id, k) # NoRange

\* C16: a get, put or del that returns KeyspaceDoesNotExist was entered in
\* Running and leaves the state Running, the participant map with all its
\* readsets, writesets and deletesets unchanged, and sends no RPC to a range
\* server; the put, del or get that follows it, on a keyspace and key that
\* resolve, is not refused: a put or del returns Ok, a get is answered
\* locally or goes on to its storage read (read as "the operation has that
\* result, or the step is not that operation").
C16_UnresolvedKeepsRunning ==
    [][/\ UnresolvedReturn =>
             /\ state = "Running" /\ state' = "Running"
             /\ pc' = "idle"
             /\ participant_ranges' = participant_ranges
             /\ rpcs' = NoRpcs
             /\ calls' # <<>>
             /\ UNCHANGED <<taskVars, envVars, histVars, lifeVars>>
       /\ (ret = KeyspaceDoesNotExist /\ OpEntered) =>
          \A ks \in Keyspaces, k \in Keys : \A l \in Lookups(ks) :
             Resolvable(ks, k, l) =>
                \/ IF cur' = "get"
                   THEN ret'[1] \in {"Some", "None", "pending", "panic"}
                   ELSE ret' = Ok
                \/ ~OpOn(ks, k, l)]_vars

C16_Witness ==
    /\ opCount = 2 /\ pc = "idle"
    /\ cur = "put" /\ ret = Ok
    /\ "b" \in DOMAIN resolved_keyspaces
    /\ Cardinality(Participants) = 1

\* C17: abort() entered in Running sets the state to Aborted and spawns one
\* abort task per participant range; when it returns, the state is Aborted,
\* exactly one abort RPC has gone to each participant range and none to any
\* other range, try_abort has been called exactly once, and the result is
\* Ok whatever the abort RPCs returned.
C17_AbortFansOut ==
    [][/\ (AbortEntered /\ state = "Running") =>
             /\ state' = "Aborted"
             /\ pc' = "record_abort"
             /\ participant_ranges' = participant_ranges
             /\ DOMAIN abort_join_set' = Participants
             /\ \A r \in Participants : abort_join_set'[r].st = "spawned"
             /\ calls' = <<>> /\ rpcs' = NoRpcs
       /\ (cur = "abort" /\ pc = "abort_join" /\ pc' = "idle") =>
             /\ state' = "Aborted"
             /\ ret' = Ok
             /\ calls' = <<Call("try_abort", 0)>>
             /\ \A r \in Ranges :
                   rpcs'[r] = IF r \in Participants THEN <<Call("abort", 0)>>
                              ELSE <<>>]_vars

C17_Witness ==
    /\ cur = "abort" /\ pc = "idle" /\ state = "Aborted" /\ ret = Ok
    /\ calls = <<Call("try_abort", 0)>>
    /\ Cardinality(Participants) = 2
    /\ \A r \in Participants :
          abort_join_set[r].out = "err" /\ rpcs[r] = <<Call("abort", 0)>>

PrepareRpcs(r) == CountKind(rpcs[r], "prepare")
CommitPastCheck == cur = "commit" /\ (pc \notin {"idle", "panicked"} \/ calls # <<>>)

\* C18: a commit() that passed the state check has one prepare task per
\* participant range and none for another range; the task for range r
\* carries has_reads = (readset(r) is not empty), the writeset of r as its
\* records and the deleteset of r as its deletes; a range gets one prepare
\* RPC when its task has run and none before; when commit() returns Ok every
\* participant range got exactly one prepare RPC and one commit RPC.
C18_PreparePayload ==
    CommitPastCheck =>
        /\ DOMAIN prepare_join_set = Participants
        /\ \A r \in Participants :
              LET t == prepare_join_set[r]
                  p == participant_ranges[r] IN
              /\ t.has_reads = (p.readset # {})
              /\ t.writes = p.writeset
              /\ t.deletes = p.deleteset
              /\ PrepareRpcs(r) = IF t.st \in {"done", "joined"} THEN 1 ELSE 0
        /\ \A r \in Ranges \ Participants : rpcs[r] = <<>>
        /\ (pc = "idle" /\ ret = Ok) =>
              \A r \in Participants :
                  rpcs[r] = <<Call("prepare", 0), Call("commit", epoch)>>

C18_Witness ==
    /\ opCount = 2 /\ cur = "commit" /\ pc = "idle" /\ ret = Ok
    /\ \E r \in Ranges :
          /\ Participants = {r}
          /\ participant_ranges[r].readset = {"k1"}
          /\ participant_ranges[r].writeset = EmptyMap
          /\ participant_ranges[r].deleteset = {}
          /\ prepare_join_set[r].has_reads
          /\ prepare_join_set[r].writes = EmptyMap
          /\ prepare_join_set[r].deletes = {}
          /\ rpcs[r] = <<Call("prepare", 0), Call("commit", epoch)>>

\* A cached name is resolved without the directory: any answer will do.
AnyLookup(ks) == CHOOSE l \in Lookups(ks) : TRUE

\* C19: a keyspace name in the cache keeps its id for the rest of the
\* transaction and the id is a real one; an operation in a Running
\* transaction on a cached name issues no universe lookup, whatever the
\* directory would answer now, and touches only the range the cached id
\* gives; an operation on a name not in the cache issues exactly one lookup,
\* caches the id when the lookup succeeds and caches nothing when it fails.
\* (Each case reads "the effect holds, or the step is not that operation".)
C19_KeyspaceIdStable ==
    [][/\ \A ks \in DOMAIN resolved_keyspaces :
             /\ resolved_keyspaces[ks] # NoKeyspace
             /\ ks \in DOMAIN resolved_keyspaces'
             /\ resolved_keyspaces'[ks] = resolved_keyspaces[ks]
       /\ (state = "Running" /\ OpEntered) =>
          \A ks \in Keyspaces, k \in Keys :
             IF ks \in DOMAIN resolved_keyspaces
             THEN \/ /\ LookupCalls(calls') = 0
                     /\ DOMAIN participant_ranges' \subseteq
                            Participants \cup {RangeOf(ks, k)}
                  \/ ~OpOn(ks, k, AnyLookup(ks))
             ELSE \A l \in Lookups(ks) :
                     \/ /\ LookupCalls(calls') = 1
                        /\ IF l.err \/ l.id = NoKeyspace
                           THEN /\ resolved_keyspaces' = resolved_keyspaces
                                /\ ret' \in {Err("InternalError"),
                                              KeyspaceDoesNotExist}
                           ELSE /\ ks \in DOMAIN resolved_keyspaces'
                                /\ resolved_keyspaces'[ks] = l.id
                     \/ ~OpOn(ks, k, l)]_vars

C19_Witness ==
    /\ opCount >= 3 /\ pc = "idle"
    /\ cur = "put" /\ ret = Ok
    /\ calls = <<Call("full_range_id_of_key", 0)>>
    /\ resolved_keyspaces = [n \in {"a"} |-> 2]
    /\ DOMAIN participant_ranges = {<<2, 1>>}
    /\ participant_ranges[<<2, 1>>].readset = {"k2"}

ReadsetOf(prs, r) == IF r \in DOMAIN prs THEN prs[r].readset ELSE {}
LeaderOf(prs, r) ==
    IF r \in DOMAIN prs THEN prs[r].leader_sequence_number
    ELSE AsU64(UNSET_LEADER_SEQUENCE_NUMBER)
ReadFrame ==
    \A r \in Ranges :
        /\ ReadsetOf(participant_ranges', r) = ReadsetOf(participant_ranges, r)
        /\ LeaderOf(participant_ranges', r) = LeaderOf(participant_ranges, r)

\* C20: a put or del sends no RPC to a range server and changes no readset
\* and no leader_sequence_number; a get that sends no read RPC changes
\* neither; a readset changes only in a get that read its range from
\* storage and returned the stored value with the transaction still
\* Running, and then by exactly the key read; and every get of a key that
\* reads from storage and returns with the transaction Running has put its
\* key in the readset of the range it read.
C20_ReadsetIsStorageReads ==
    [][/\ (OpEntered /\ cur' \in {"put", "del"}) => rpcs' = NoRpcs /\ ReadFrame
       /\ (OpEntered /\ cur' = "get" /\ rpcs' = NoRpcs) => ReadFrame
       /\ \A r \in Ranges :
             ReadsetOf(participant_ranges', r) # ReadsetOf(participant_ranges, r) =>
                /\ OpEntered /\ cur' = "get"
                /\ rpcs' = [NoRpcs EXCEPT ![r] = <<Call("get", 0)>>]
                /\ state' = "Running" /\ pc' = "idle"
                /\ \E k \in Keys :
                      /\ ReadsetOf(participant_ranges', r) =
                             ReadsetOf(participant_ranges, r) \cup {k}
                      /\ ret' = StoredValue(r, k)
       /\ (/\ OpEntered /\ cur' = "get" /\ rpcs' # NoRpcs
           /\ pc' = "idle" /\ state' = "Running") =>
             \A ks \in Keyspaces, k \in Keys :
                \/ \E r \in Ranges :
                      /\ rpcs'[r] = <<Call("get", 0)>>
                      /\ k \in ReadsetOf(participant_ranges', r)
                \/ ~\E l \in Lookups(ks), resp \in ReadResponses :
                       get(ks, k, l, resp)]_vars

C20_Witness ==
    /\ cur = "del" /\ pc = "idle" /\ ret = Ok /\ rpcs = NoRpcs
    /\ \E r \in Participants :
          /\ participant_ranges[r].readset = {"k1", "k2"}
          /\ "k1" \in DOMAIN participant_ranges[r].writeset
          /\ "k2" \in participant_ranges[r].deleteset
          /\ participant_ranges[r].leader_sequence_number = 9

\* C21: no operation crashes on a failure reported by a collaborator: an
\* operation whose read RPC, epoch read, try_commit or try_abort came back
\* with an error does not end in the panic of unwrap() (it returns
\* InternalError, as a failed universe lookup does).
C21_CollaboratorFailureIsInternal ==
    ret # Panic("unwrap")

\* C22: over the whole life of a transaction, "try_commit answered
\* Committed" never goes together with a try_abort call or an abort RPC, in
\* either order, and a try_abort call never goes together with a commit
\* RPC; try_abort is never answered Committed, so record_abort never
\* reaches its fatal branch.
C22_NoAbortWithCommit ==
    /\ "committed" \in life_events =>
          life_events \cap {"try_abort", "abort_rpc"} = {}
    /\ "try_abort" \in life_events => "commit_rpc" \notin life_events
    /\ "try_abort" \in life_events => store.decision # "committed"
    /\ ret # Panic("transaction committed without coordinator consent!")

C22_Witness ==
    /\ life_events = {"committed", "commit_rpc"}
    /\ state = "Committed" /\ cur = "abort" /\ pc = "idle"
    /\ ret = Err("TransactionNoLongerRunning")
    /\ Participants # {}

\* C23: no participant range receives this transaction's prepare RPC after
\* it has received its abort RPC: in the RPCs a range gets during one
\* commit(), every prepare comes before every abort.
C23_NoPrepareAfterAbort ==
    \A r \in Ranges : \A i, j \in DOMAIN rpcs[r] :
        (rpcs[r][i].kind = "abort" /\ rpcs[r][j].kind = "prepare") => j < i

MixedPrepareFailures ==
    /\ Cardinality(Participants) = 2
    /\ \E a, b \in DOMAIN prepare_join_set :
          /\ prepare_join_set[a].out = "join_error"
          /\ prepare_join_set[b].out = "err"

\* C24: the outcome of commit() is fixed by the prepare results and the
\* store's answers, not by the order in which the prepare tasks are joined:
\* a commit() with two participants that has ended, one prepare having
\* failed at task level and the other with an error returned by the range
\* client, every store call having been answered, has returned
\* TransactionAborted(PrepareFailed) with the state Aborted, after one
\* try_abort and no try_commit.
C24_OutcomeIndependentOfJoinOrder ==
    (CommitEnded /\ MixedPrepareFailures /\ ret # Panic("unwrap")) =>
        /\ ret = Err("TransactionAborted(PrepareFailed)")
        /\ state = "Aborted"
        /\ CountKind(calls, "try_abort") = 1
        /\ CountKind(calls, "try_commit") = 0

Unset == AsU64(UNSET_LEADER_SEQUENCE_NUMBER)

\* The range resolution gives for (ks, k) when the directory, if asked,
\* answers l.
ResolvedRange(ks, k, l) ==
    IF ks \in DOMAIN resolved_keyspaces THEN RangeOf(ks, k)
    ELSE full_range_id_of_key(l.id, k)

\* The key is in neither the writeset nor the deleteset of range r.
NotBuffered(r, k) ==
    r \in Participants =>
        /\ k \notin DOMAIN participant_ranges[r].writeset
        /\ k \notin participant_ranges[r].deleteset

\* C25: a range enters the participant map in a put, del or get, holding
\* nothing but what that operation adds to empty sets (one written key, one
\* deleted key, or at most one read key) and, unless that get pins it, the
\* unset leader sequence number; a get in a Running transaction that reads
\* from storage a range whose leader sequence number is unset, or is already
\* the number v the response carries, v not INVALID, does not abort: it
\* leaves the transaction Running, leaves the range's number at v, adds the
\* key to the readset and returns the stored value.
C25_FirstReadPins ==
    [][/\ \A r \in DOMAIN participant_ranges' \ Participants :
             LET p == participant_ranges'[r] IN
             /\ OpEntered
             /\ CASE cur' = "put" ->
                        /\ p.readset = {} /\ p.deleteset = {}
                        /\ Cardinality(DOMAIN p.writeset) = 1
                        /\ p.leader_sequence_number = Unset
                  [] cur' = "del" ->
                        /\ p.readset = {} /\ p.writeset = EmptyMap
                        /\ Cardinality(p.deleteset) = 1
                        /\ p.leader_sequence_number = Unset
                  [] cur' = "get" ->
                        /\ p.writeset = EmptyMap /\ p.deleteset = {}
                        /\ IF p.readset = {}
                           THEN p.leader_sequence_number = Unset
                           ELSE Cardinality(p.readset) = 1
                  [] OTHER -> FALSE
       /\ (state = "Running" /\ OpEntered /\ cur' = "get") =>
          \A ks \in Keyspaces, k \in Keys : \A l \in Lookups(ks) :
          \A resp \in ReadResponses :
             LET r == ResolvedRange(ks, k, l) IN
             (/\ Resolvable(ks, k, l)
              /\ NotBuffered(r, k)
              /\ ~resp.err
              /\ resp.leader_sequence_number # INVALID_LEADER_SEQUENCE_NUMBER
              /\ LeaderOf(participant_ranges, r) \in
                     {Unset, AsU64(resp.leader_sequence_number)}) =>
                \/ /\ state' = "Running" /\ pc' = "idle"
                   /\ ret' = StoredValue(r, k)
                   /\ rpcs' = [NoRpcs EXCEPT ![r] = <<Call("get", 0)>>]
                   /\ LeaderOf(participant_ranges', r) =
                          AsU64(resp.leader_sequence_number)
                   /\ k \in ReadsetOf(participant_ranges', r)
                \/ ~get(ks, k, l, resp)]_vars

C25_Witness ==
    /\ opCount = 2 /\ cur = "get" /\ pc = "idle" /\ state = "Running"
    /\ ret = <<"Some", "s0">>
    /\ \E r \in Ranges :
          /\ Participants = {r}
          /\ participant_ranges[r].leader_sequence_number = 9
          /\ participant_ranges[r].readset = {"k1", "k2"}
          /\ rpcs[r] = <<Call("get", 0)>>


\* A task of one of the call's join sets is spawned and not finished.
OutstandingTasks ==
    \E js \in {prepare_join_set, commit_join_set, abort_join_set} :
        \E r \in DOMAIN js : js[r].st = "spawned"

\* C26: when a commit() or an abort() call has returned, the transaction is
\* Committed or Aborted and no task the call spawned is still outstanding.
\* (The claim also says that the call does return when every collaborator
\* call answers; this is the part of it that holds of a returned call.)
C26_ReturnedCallIsTerminal ==
    (cur \in {"commit", "abort"} /\ pc = "idle") =>
        /\ state \in {"Committed", "Aborted"}
        /\ ~OutstandingTasks

=============================================================================
